---- MODULE Spec2Model ----
(***************************************************************************)
(* A model of src/main.py: the MicroC contact-matrix PCA pipeline.         *)
(*                                                                         *)
(*   prep             rows of a parsed file -> (location, value) records   *)
(*   load_microC      pd.read_csv(sep='\t') followed by prep               *)
(*   pca_calculation  the driver: load loop, outer merge, pca_drawing      *)
(*   pca_drawing      scale, fit 3 components, write scores, plot, write   *)
(*                    loadings                                             *)
(*                                                                         *)
(* Text is a sequence of one-character strings, so that the canonical key  *)
(* is built by concatenation exactly as line 28 builds it.  The numeric    *)
(* content of the PCA (scores, loadings) is not modelled; its control flow,*)
(* the exceptions it raises and the files it writes are.                   *)
(***************************************************************************)
EXTENDS Integers, Sequences, FiniteSets

VARIABLES
    args,       \* pca_calculation's *args: the sample names, in call order
    prefix,     \* the output prefix
    fs,         \* the files <name>.txt as far as the run has opened them
    i,          \* position of the for loop of line 124 in args
    temp,       \* the local temp of pca_calculation / the loader's result
    data,       \* the accumulator data of pca_calculation
    pc,         \* control state of the running function
    err,        \* the exception that ended the run, "none" while there is none
    written,    \* the output files written so far
    ret,        \* the returned value, "unset" before a return
    chunk,      \* chunked loader: [size, out]
    shape,      \* pca_drawing's data: [ns columns (samples), nf rows (keys),
                \* labels: what the column labels are]
    pandas3     \* whether the installed pandas treats Series[int] as a label

vars == <<args, prefix, fs, i, temp, data, pc, err, written, ret, chunk, shape, pandas3>>

----------------------------------------------------------------------------
(* Bounds of the model *)

MaxArgs == 3
MaxLines == 3
MaxChunk == 3
MaxSamples == 4
MaxFeatures == 4

(* Constants of the program *)

NColumns == 7
NComponents == 3
PrepParams == 2
PrepCallArgs == 1
DrawParams == 3
DrawCallArgs == 2
NaN == -1

----------------------------------------------------------------------------
(* Inputs *)

Names == {"A", "B", "C"}
Prefixes == {"test", "P"}
LabelKinds == {"names", "range", "integers"}

ChrA == <<"a">>
ChrB == <<"b">>
ChrX == <<"a", ":", "0", "-", "0", ";", "a">>

Line(n, c1, s1, e1, c2, s2, e2, v) ==
    [nf |-> n, chr1 |-> c1, start1 |-> s1, end1 |-> e1,
     chr2 |-> c2, start2 |-> s2, end2 |-> e2, value |-> v]

\* The text lines a file is made of: nf is the number of tab-separated
\* fields on the line; a line of 6 fields has no value field.
Lines ==
    { Line(7, ChrA, 0, 100, ChrA, 0, 100, 5),
      Line(7, ChrA, 0, 100, ChrA, 0, 100, 3),
      Line(7, ChrA, 100, 200, ChrB, 0, 100, 1),
      Line(7, ChrA, 0, 0, ChrX, 0, 0, 1),
      Line(7, ChrX, 0, 0, ChrA, 0, 0, 2),
      Line(6, ChrA, 0, 100, ChrA, 0, 100, NaN),
      Line(8, ChrB, 0, 100, ChrB, 0, 100, 4) }

Texts == UNION { [1..n -> Lines] : n \in 0..MaxLines }

Unread == [state |-> "unread", lines |-> <<>>]
Missing == [state |-> "missing", lines |-> <<>>]
FileStates == {Missing} \cup { [state |-> "file", lines |-> t] : t \in Texts }

ArgLists == UNION { [1..n -> Names] : n \in 0..MaxArgs }

----------------------------------------------------------------------------
(* Values *)

Range(s) == { s[k] : k \in 1..Len(s) }

Min(a, b) == IF a < b THEN a ELSE b

Max(a, b) == IF a < b THEN b ELSE a

RECURSIVE Concat(_)
Concat(ss) == IF Len(ss) = 0 THEN <<>> ELSE Head(ss) \o Concat(Tail(ss))

\* A frame or the exception raised instead of it.
Frame(c, r) == [err |-> "none", cols |-> c, rows |-> r]
Raise(e) == [err |-> e, cols |-> <<>>, rows |-> <<>>]
NotRun == Raise("notrun")
EmptyFrame == Frame(<<>>, <<>>)

Digits == <<"0", "1", "2", "3", "4", "5", "6", "7", "8", "9">>

\* astype(str) on an integer column: the decimal digits.
RECURSIVE Str(_)
Str(n) == IF n < 10 THEN <<Digits[n + 1]>> ELSE Str(n \div 10) \o <<Digits[(n % 10) + 1]>>

\* Line 28: chr1 + ':' + start1 + '-' + end1 + ';' + chr2 + ':' + start2 + '-' + end2
tile(l) ==
    l.chr1 \o <<":">> \o Str(l.start1) \o <<"-">> \o Str(l.end1) \o <<";">>
    \o l.chr2 \o <<":">> \o Str(l.start2) \o <<"-">> \o Str(l.end2)

CoordFields(l) == <<l.chr1, l.start1, l.end1, l.chr2, l.start2, l.end2>>

----------------------------------------------------------------------------
(* load_microC and prep *)

\* Line 108, pd.read_csv(f'{filename}.txt', sep='\t') with its defaults
\* (header='infer', C parser).  The first line of the file is the header: its
\* fields become column names and it yields no row.  The first data line may
\* have any number of fields; fields beyond the header's become index levels
\* (leading).  A later line with more fields than the width so far is a
\* ParserError; a line with fewer is padded with NaN.
read_csv(file) ==
    IF file.state # "file" THEN [err |-> "FileNotFoundError", ncols |-> 0, leading |-> 0, rows |-> <<>>]
    ELSE IF Len(file.lines) = 0 THEN [err |-> "EmptyDataError", ncols |-> 0, leading |-> 0, rows |-> <<>>]
    ELSE LET header == Head(file.lines)
             body == Tail(file.lines)
             width == IF Len(body) = 0 THEN header.nf ELSE Max(header.nf, body[1].nf)
         IN  IF \E k \in 2..Len(body) : body[k].nf > width
             THEN [err |-> "ParserError", ncols |-> 0, leading |-> 0, rows |-> <<>>]
             ELSE [err |-> "none", ncols |-> header.nf, leading |-> width - header.nf,
                   rows |-> [k \in 1..Len(body) |->
                               IF body[k].nf < NColumns
                               THEN [body[k] EXCEPT !.value = NaN] ELSE body[k]]]

\* A variant of prep that also drops repeated locations (keep='first').
RECURSIVE DropDuplicates(_)
DropDuplicates(rows) ==
    IF Len(rows) = 0 THEN <<>>
    ELSE LET init == DropDuplicates(SubSeq(rows, 1, Len(rows) - 1))
             last == rows[Len(rows)]
         IN  IF \E k \in 1..Len(init) : init[k].location = last.location
             THEN init ELSE Append(init, last)

prep_dedup(df, df_name) ==
    IF df.ncols # NColumns THEN Raise("ValueError")
    ELSE IF df.leading > 0 /\ Len(df.rows) > 0 THEN Raise("TypeError")
    ELSE Frame(<<"location", df_name>>,
               DropDuplicates([k \in 1..Len(df.rows) |->
                   [location |-> tile(df.rows[k]), vals |-> <<df.rows[k].value>>]]))

\* Lines 7-36.  Line 19 assigns 7 column names: a frame with another number
\* of columns is a ValueError (length mismatch).  With index levels taken
\* from the front of each line, column 'chr1' holds the integers of start1
\* and line 28's chr1 + ':' is a TypeError.  Otherwise every row becomes
\* (tile, value) under the columns ['location', df_name].
prep(df, df_name) ==
    IF df.ncols # NColumns THEN Raise("ValueError")
    ELSE IF df.leading > 0 /\ Len(df.rows) > 0 THEN Raise("TypeError")
    ELSE Frame(<<"location", df_name>>,
               [k \in 1..Len(df.rows) |->
                   [location |-> tile(df.rows[k]), vals |-> <<df.rows[k].value>>]])

\* Lines 98-110.
load_microC(file, filename) ==
    LET df == read_csv(file)
    IN  IF df.err # "none" THEN Raise(df.err) ELSE prep(df, filename)

\* The chunked variant of the loader: read_csv(..., chunksize=size) hands
\* the data rows out in batches of size rows (one empty batch when there are
\* none), prep runs on each batch and the results are concatenated.
Chunks(rows, size) ==
    IF Len(rows) = 0 THEN << <<>> >>
    ELSE [c \in 1..((Len(rows) + size - 1) \div size) |->
              SubSeq(rows, (c - 1) * size + 1, Min(c * size, Len(rows)))]

load_microC_chunked(file, filename, size) ==
    LET df == read_csv(file)
        parts == IF df.err # "none" THEN <<>>
                 ELSE LET cs == Chunks(df.rows, size)
                      IN  [c \in 1..Len(cs) |-> prep([df EXCEPT !.rows = cs[c]], filename)]
    IN  IF df.err # "none" THEN Raise(df.err)
        ELSE IF \E c \in 1..Len(parts) : parts[c].err # "none"
             THEN Raise(parts[CHOOSE c \in 1..Len(parts) :
                               /\ parts[c].err # "none"
                               /\ \A b \in 1..(c - 1) : parts[b].err = "none"].err)
             ELSE Frame(<<"location", filename>>,
                        Concat([c \in 1..Len(parts) |-> parts[c].rows]))

----------------------------------------------------------------------------
(* The body of pca_calculation *)

\* Line 126, prep(temp): one positional argument for the two parameters of
\* line 7 is a TypeError raised by the call itself.  With both arguments
\* prep would give the 2-column frame 7 column names: a ValueError.
prep_call(t) ==
    IF PrepCallArgs # PrepParams THEN Raise("TypeError") ELSE Raise("ValueError")

HasColumn(df, c) == c \in Range(df.cols)

NaNs(n) == [k \in 1..n |-> NaN]

fillna(rows) ==
    [k \in 1..Len(rows) |->
        [rows[k] EXCEPT !.vals = [j \in 1..Len(@) |-> IF @[j] = NaN THEN 0 ELSE @[j]]]]

\* how='outer' on 'location': every pair of rows with the same location,
\* the unmatched rows of either side with NaN in the other side's columns.
\* (pandas orders the result by key; the order of rows is left as found.)
OuterJoin(left, right) ==
    LET nl == Len(left.cols) - 1
        nr == Len(right.cols) - 1
        matched ==
            Concat([k \in 1..Len(left.rows) |->
                LET m == SelectSeq(right.rows, LAMBDA r : r.location = left.rows[k].location)
                IN  IF Len(m) = 0
                    THEN << [left.rows[k] EXCEPT !.vals = @ \o NaNs(nr)] >>
                    ELSE [j \in 1..Len(m) |-> [left.rows[k] EXCEPT !.vals = @ \o m[j].vals]]])
        rightonly ==
            SelectSeq(right.rows,
                      LAMBDA r : \A k \in 1..Len(left.rows) : left.rows[k].location # r.location)
    IN  matched \o [k \in 1..Len(rightonly) |-> [rightonly[k] EXCEPT !.vals = NaNs(nl) \o @]]

\* Line 127, data.merge(temp, on='location', how='outer').fillna(0).  The
\* accumulator of line 123 is pd.DataFrame(): it has no column 'location',
\* and merging on a key the left frame lacks is a KeyError.
merge(left, right) ==
    IF ~HasColumn(left, "location") \/ ~HasColumn(right, "location") THEN Raise("KeyError")
    ELSE Frame(left.cols \o Tail(right.cols), fillna(OuterJoin(left, right)))

\* Line 128, data.set_index('location', inplace=True).
set_index(df) ==
    IF ~HasColumn(df, "location") THEN Raise("KeyError")
    ELSE Frame(SelectSeq(df.cols, LAMBDA c : c # "location"), df.rows)

----------------------------------------------------------------------------
(* pca_drawing *)

ScoresFile(p) == [prefix |-> p, suffix |-> ".csv"]
PlotFile(p) == [prefix |-> p, suffix |-> "_pca_plots.png"]
ComponentsFile(p) == [prefix |-> p, suffix |-> "_components.csv"]
OutputFiles(p) == {ScoresFile(p), PlotFile(p), ComponentsFile(p)}

\* Lines 52-53, StandardScaler().fit_transform(data.T): input validation
\* rejects an array with no sample or no feature.
scale_err(sh) == IF sh.ns = 0 \/ sh.nf = 0 THEN "ValueError" ELSE "none"

\* A variant of the fit that validates against the number of features only.
fit_err_features_only(sh) == IF NComponents > sh.nf THEN "ValueError" ELSE "none"

\* Lines 56-57, PCA(n_components=3).fit_transform: n_components must not
\* exceed min(n_samples, n_features).
fit_err(sh) == IF NComponents > Min(sh.ns, sh.nf) THEN "ValueError" ELSE "none"

\* Lines 68-69 and 76-77, pca_df['PC1'][i] for i = 0..ns-1 on a Series
\* indexed by the column labels of data.  On an integer index the key i is a
\* label: found when the labels are 0..ns-1 ("range"), a KeyError when they
\* are other integers ("integers").  On an index of strings ("names") it is
\* a position up to pandas 2 and a label, hence a KeyError, from pandas 3 on.
annotate_err(sh, p3) ==
    IF sh.ns = 0 \/ sh.labels = "range" THEN "none"
    ELSE IF sh.labels = "integers" \/ p3 THEN "KeyError"
    ELSE "none"

\* The whole of pca_drawing: what it has written and how it ended.
DrawOutcome(sh, p, p3) ==
    IF scale_err(sh) # "none" THEN [written |-> {}, err |-> scale_err(sh), ret |-> "unset"]
    ELSE IF fit_err(sh) # "none" THEN [written |-> {}, err |-> fit_err(sh), ret |-> "unset"]
    ELSE IF annotate_err(sh, p3) # "none"
         THEN [written |-> {ScoresFile(p)}, err |-> annotate_err(sh, p3), ret |-> "unset"]
    ELSE [written |-> OutputFiles(p), err |-> "none", ret |-> "0"]

----------------------------------------------------------------------------
(* Spec: one call of pca_calculation with the names args and a prefix *)

Init ==
    /\ args \in ArgLists
    /\ prefix \in Prefixes
    /\ pandas3 \in BOOLEAN
    /\ fs = [n \in Names |-> Unread]
    /\ i = 1
    /\ temp = NotRun
    /\ data = EmptyFrame                 \* line 123
    /\ pc = "loop"
    /\ err = "none"
    /\ written = {}
    /\ ret = "unset"
    /\ chunk = [size |-> 1, out |-> NotRun]
    /\ shape = [ns |-> 0, nf |-> 0, labels |-> "names"]

\* Lines 124-127, one iteration of the for loop.  The file is opened here
\* for the first time and its content is whatever is on disk then.
pca_calculation_loop ==
    /\ pc = "loop"
    /\ i <= Len(args)
    /\ \E onDisk \in FileStates :
        LET name == args[i]
            file == IF fs[name].state = "unread" THEN onDisk ELSE fs[name]
            loaded == load_microC(file, name)                              \* line 125
            prepped == IF loaded.err = "none" THEN prep_call(loaded) ELSE loaded   \* line 126
            merged == IF prepped.err = "none" THEN merge(data, prepped) ELSE prepped \* line 127
        IN  /\ fs' = [fs EXCEPT ![name] = file]
            /\ temp' = IF loaded.err # "none" THEN temp
                       ELSE IF prepped.err # "none" THEN loaded ELSE prepped
            /\ data' = IF merged.err = "none" THEN merged ELSE data
            /\ err' = merged.err
            /\ pc' = IF merged.err = "none" THEN "loop" ELSE "raised"
            /\ i' = IF merged.err = "none" THEN i + 1 ELSE i
    /\ UNCHANGED <<args, prefix, written, ret, chunk, shape, pandas3>>

\* Lines 128-130, after the loop: set_index, pca_drawing(data, prefix) with
\* two arguments for the three parameters of line 39, and the return of
\* print(...), which is None.
pca_calculation_finish ==
    /\ pc = "loop"
    /\ i > Len(args)
    /\ LET indexed == set_index(data)
           sh == [ns |-> Len(indexed.cols), nf |-> Len(indexed.rows), labels |-> "names"]
           out == IF indexed.err # "none" THEN [written |-> {}, err |-> indexed.err, ret |-> "unset"]
                  ELSE IF DrawCallArgs # DrawParams THEN [written |-> {}, err |-> "TypeError", ret |-> "unset"]
                  ELSE DrawOutcome(sh, prefix, pandas3)
       IN  /\ data' = IF indexed.err = "none" THEN indexed ELSE data
           /\ written' = out.written
           /\ err' = out.err
           /\ pc' = IF out.err = "none" THEN "returned" ELSE "raised"
           /\ ret' = IF out.err = "none" THEN "None" ELSE ret
    /\ UNCHANGED <<args, prefix, fs, i, temp, chunk, shape, pandas3>>

Next == pca_calculation_loop \/ pca_calculation_finish

Spec == Init /\ [][Next]_vars

Terminated == pc \in {"returned", "raised"}

----------------------------------------------------------------------------
(* SpecLoad: the loader called on one file, whole and in chunks *)

InitLoad ==
    /\ \E n \in Names : args = <<n>>
    /\ \E f \in FileStates : fs = [n \in Names |-> IF n = args[1] THEN f ELSE Unread]
    /\ \E size \in 1..MaxChunk : chunk = [size |-> size, out |-> NotRun]
    /\ prefix = "test"
    /\ pandas3 = FALSE
    /\ i = 1
    /\ temp = NotRun
    /\ data = EmptyFrame
    /\ pc = "load"
    /\ err = "none"
    /\ written = {}
    /\ ret = "unset"
    /\ shape = [ns |-> 0, nf |-> 0, labels |-> "names"]

load_whole ==
    /\ pc = "load"
    /\ temp = NotRun
    /\ temp' = load_microC(fs[args[1]], args[1])
    /\ UNCHANGED <<args, prefix, fs, i, data, pc, err, written, ret, chunk, shape, pandas3>>

load_chunked ==
    /\ pc = "load"
    /\ chunk.out = NotRun
    /\ chunk' = [chunk EXCEPT !.out = load_microC_chunked(fs[args[1]], args[1], chunk.size)]
    /\ UNCHANGED <<args, prefix, fs, i, temp, data, pc, err, written, ret, shape, pandas3>>

NextLoad == load_whole \/ load_chunked

SpecLoad == InitLoad /\ [][NextLoad]_vars

----------------------------------------------------------------------------
(* SpecDraw: one call pca_drawing(data, prefix, components) *)

InitDraw ==
    /\ \E ns \in 0..MaxSamples, nf \in 0..MaxFeatures, l \in LabelKinds :
            shape = [ns |-> ns, nf |-> nf, labels |-> l]
    /\ prefix \in Prefixes
    /\ pandas3 \in BOOLEAN
    /\ args = <<>>
    /\ fs = [n \in Names |-> Unread]
    /\ i = 1
    /\ temp = NotRun
    /\ data = EmptyFrame
    /\ pc = "scale"
    /\ err = "none"
    /\ written = {}
    /\ ret = "unset"
    /\ chunk = [size |-> 1, out |-> NotRun]

DrawStep(from, e, to) ==
    /\ pc = from
    /\ err' = e
    /\ pc' = IF e = "none" THEN to ELSE "raised"
    /\ UNCHANGED <<args, prefix, fs, i, temp, data, chunk, shape, pandas3>>

\* Lines 52-53.
pca_drawing_scale == DrawStep("scale", scale_err(shape), "fit") /\ UNCHANGED <<written, ret>>

\* Lines 56-57.
pca_drawing_fit == DrawStep("fit", fit_err(shape), "scores") /\ UNCHANGED <<written, ret>>

\* Lines 60-61: the scores are written first.
pca_drawing_scores ==
    /\ DrawStep("scores", "none", "plot")
    /\ written' = written \cup {ScoresFile(prefix)}
    /\ UNCHANGED ret

\* Lines 64-82.
pca_drawing_plot ==
    DrawStep("plot", annotate_err(shape, pandas3), "savefig") /\ UNCHANGED <<written, ret>>

\* Line 83.
pca_drawing_savefig ==
    /\ DrawStep("savefig", "none", "components")
    /\ written' = written \cup {PlotFile(prefix)}
    /\ UNCHANGED ret

\* Lines 86-95: the loadings are ranked, printed and written last.
pca_drawing_components ==
    /\ DrawStep("components", "none", "returned")
    /\ written' = written \cup {ComponentsFile(prefix)}
    /\ ret' = "0"

NextDraw ==
    \/ pca_drawing_scale
    \/ pca_drawing_fit
    \/ pca_drawing_scores
    \/ pca_drawing_plot
    \/ pca_drawing_savefig
    \/ pca_drawing_components

SpecDraw == InitDraw /\ [][NextDraw]_vars

----------------------------------------------------------------------------
(* Properties *)

\* A file as the format describes it: at least one row, 7 fields on every row.
WellFormedFile(f) ==
    /\ f.state = "file"
    /\ Len(f.lines) >= 1
    /\ \A k \in 1..Len(f.lines) : f.lines[k].nf = NColumns

\* No file the run has opened is other than well formed.
WellFormedInputs ==
    \A k \in 1..Len(args) : fs[args[k]].state = "unread" \/ WellFormedFile(fs[args[k]])

UniqueNames == \A j, k \in 1..Len(args) : args[j] = args[k] => j = k

\* The sample vector the loader makes of the file of sample n.
VectorOf(n) == load_microC(fs[n], n).rows
KeysOf(n) == { r.location : r \in Range(VectorOf(n)) }
ValuesOf(n, key) == { r.vals[1] : r \in { q \in Range(VectorOf(n)) : q.location = key } }

\* C1: when pca_calculation has ended on a non-empty list of well-formed
\* samples, every key of every sample is a row of the assembled matrix, with
\* one defined value per sample: the sample's own value where it has the key
\* and 0 where it has not.
C1_AllKeysAssembled ==
    (Terminated /\ Len(args) > 0 /\ WellFormedInputs) =>
        \A k \in 1..Len(args) : \A key \in KeysOf(args[k]) :
            \E r \in 1..Len(data.rows) :
                /\ data.rows[r].location = key
                /\ Len(data.rows[r].vals) = Len(args)
                /\ \A j \in 1..Len(args) :
                    IF key \in KeysOf(args[j])
                    THEN data.rows[r].vals[j] \in ValuesOf(args[j], key)
                    ELSE data.rows[r].vals[j] = 0

\* C2: a call with at least 3 uniquely named well-formed samples ends by
\* returning "the end of command", without an exception, having written
\* exactly the three files of its prefix.
C2_CompletesWithThreeFiles ==
    (Terminated /\ Len(args) >= NComponents /\ UniqueNames /\ WellFormedInputs) =>
        /\ pc = "returned"
        /\ err = "none"
        /\ written = OutputFiles(prefix)
        /\ ret = "the end of command"

HasShortRow(f) ==
    /\ f.state = "file"
    /\ \E k \in 1..Len(f.lines) : f.lines[k].nf = NColumns - 1
    /\ \A k \in 1..Len(f.lines) : f.lines[k].nf \in {NColumns - 1, NColumns}

\* The exceptions counted as a parse error: pandas' ParserError, and the
\* ValueError it derives from (the length mismatch of line 19 included).
ParseErrors == {"ParserError", "ValueError"}

\* C4: when an input file has a row of 6 fields instead of 7, the run ends
\* with a parse error and no output file.
C4_ShortRowIsParseError ==
    (Terminated /\ \E k \in 1..Len(args) : HasShortRow(fs[args[k]])) =>
        /\ err \in ParseErrors
        /\ written = {}

\* C5: with fewer than 3 samples pca_drawing writes no file and does not
\* return: it ends with the ValueError of the library's input validation
\* (the configuration error of the error taxonomy).
C5_TooFewSamplesRejected ==
    shape.ns < NComponents =>
        /\ written = {}
        /\ pc # "returned"
        /\ Terminated => err = "ValueError"

C5_Witness ==
    /\ pc = "raised"
    /\ err = "ValueError"
    /\ shape.ns = NComponents - 1
    /\ shape.nf >= NComponents
    /\ written = {}

\* The loader has returned the vector in temp for the file of args[i].
Loaded == i <= Len(args) /\ temp.err = "none"

\* C6: the key is an injective function of the six coordinate fields: two
\* rows of a loaded file have the same location exactly when they have the
\* same six fields.
C6_KeyInjective ==
    Loaded =>
        LET body == Tail(fs[args[i]].lines)
        IN  \A j, k \in 1..Len(temp.rows) :
                (temp.rows[j].location = temp.rows[k].location)
                    <=> (CoordFields(body[j]) = CoordFields(body[k]))

\* C7: the file has no header row: the vector loaded from a file of N
\* 7-field rows has N records.
C7_EveryRowLoaded ==
    (Loaded /\ WellFormedFile(fs[args[i]])) =>
        Len(temp.rows) = Len(fs[args[i]].lines)

C9_SingleSampleIdentity ==
    (Terminated /\ Len(args) = 1 /\ WellFormedFile(fs[args[1]])) =>
        /\ SelectSeq(data.cols, LAMBDA c : c # "location") = <<args[1]>>
        /\ data.rows = VectorOf(args[1])

\* C10: the assembled matrix has exactly one row per distinct key of the
\* samples.
C10_OneRowPerKey ==
    (Terminated /\ WellFormedInputs) =>
        Len(data.rows) = Cardinality(UNION { KeysOf(args[k]) : k \in 1..Len(args) })

====
